---- MODULE Spec2Model ----
(***************************************************************************)
(* The job store and the three request handlers of src/server.py:          *)
(* separate (POST /separate), get_file (GET /files/{job_id}/{filename})    *)
(* and delete_job (DELETE /files/{job_id}).                                *)
(*                                                                         *)
(* The handlers are coroutines on one event loop: a handler runs without   *)
(* interruption from one await to the next.  separate has one await        *)
(* (file.read(), line 92), so it is two steps: SeparateBegin (lines 87-92, *)
(* up to the suspension) and SeparateResume (lines 92-114).  get_file and  *)
(* delete_job have no await and are one step each.  The calls to the       *)
(* Description Provider and to the Separation Engine are synchronous; they *)
(* either raise or return, chosen nondeterministically.                    *)
(***************************************************************************)
EXTENDS Integers, FiniteSets, Sequences, TLC

\* ---- bounds ----
NumRequests == 2   \* separate requests that can be in flight at once
NumJobIds == 2     \* distinct values uuid4().hex[:12] can take
NumResults == 1    \* distinct results the Separation Engine can return
NumUploads == 1    \* distinct contents an upload can have

\* ---- values ----
None == "<None>"
Requests == 1..NumRequests
\* file contents: what an upload holds, and the speech and the background
\* audio of an engine result
NoBytes == <<>>
UploadBytes == {<<"upload", i>> : i \in 1..NumUploads}
Results == 1..NumResults
speech_bytes(result) == <<"speech", result>>
background_bytes(result) == <<"background", result>>
JobIds == {<<"job", i>> : i \in 1..NumJobIds}
NoJob == <<>>
Dot == <<".">>
DotDot == <<"..">>
\* what the route /files/{job_id} accepts as job_id: any text without "/"
PathComponents == JobIds \cup {Dot, DotDot}

\* declared content types and file names an upload can carry
ContentTypes ==
    {None, "", "application/octet-stream", "video/mp4", "audio/mpeg",
     "audio/wav", "text/plain"}
Filenames ==
    {None, "", "clip.mp4", "CLIP.MP4", "song.mp3", "speech.wav",
     "background.wav", "data.qqq", "noext"}
\* the uploads the server specification draws from
UploadNames == {None, "clip.mp4", "speech.wav"}
UploadTypes == {None}
\* the file names the get_file requests ask for
RequestNames == {"input", "clip.mp4", "speech.wav", "background.wav"}

VARIABLES
    fs_repo,      \* TRUE while the files beside output/ (server.py, .env) exist
    fs_output,    \* TRUE while OUTPUT_DIR exists
    fs_jobs,      \* OUTPUT_DIR: job id -> (file name -> bytes), the existing job directories
    reqs,         \* the separate requests: each idle or suspended at file.read()
    response,     \* the response the last finished handler sent
    describe_log, \* the last call of _describe_speaker: its arguments and the upload it came from
    engine_out    \* history: job id -> what the engine produced for it, NoResult if none or after delete_job(J)

vars == <<fs_repo, fs_output, fs_jobs, reqs, response, describe_log, engine_out>>

EmptyDir == [n \in {} |-> NoBytes]
NoResult == [speech |-> NoBytes, background |-> NoBytes]
IdleRequest ==
    [pc |-> "idle", job_id |-> NoJob, filename |-> None, content_type |-> None,
     file_bytes |-> NoBytes]
NoResponse ==
    [op |-> "none", status |-> 0, detail |-> "", raised_at |-> 0,
     speech_url |-> <<>>, background_url |-> <<>>, content |-> NoBytes]
NoCall ==
    [called |-> FALSE, mime_type |-> None, filename |-> None, content_type |-> None]

\* ---- the file system under OUTPUT_DIR ----
\* Path.exists() of OUTPUT_DIR / job_id.  OUTPUT_DIR / "." is OUTPUT_DIR itself;
\* OUTPUT_DIR / ".." is resolved through OUTPUT_DIR, so it exists only while
\* OUTPUT_DIR does.
exists(job_id) ==
    IF job_id \in JobIds THEN fs_output /\ job_id \in DOMAIN fs_jobs
    ELSE fs_output

\* whether OUTPUT_DIR / job_id / filename is a regular file
is_file(job_id, filename) ==
    /\ job_id \in JobIds
    /\ fs_output
    /\ job_id \in DOMAIN fs_jobs
    /\ filename \in DOMAIN fs_jobs[job_id]

\* Path.write_bytes: the directory with the file created or overwritten
write_bytes(dir, name, data) ==
    [n \in DOMAIN dir \cup {name} |-> IF n = name THEN data ELSE dir[n]]

\* fs_jobs without the directory of job_id
rmtree(jobs, job_id) ==
    [j \in DOMAIN jobs \ {job_id} |-> jobs[j]]

\* ---- MIME type resolution (lines 97-99) ----
\* posixpath.splitext: the extension of a file name, "" if it has none
splitext(name) ==
    CASE name = "clip.mp4" -> ".mp4"
      [] name = "CLIP.MP4" -> ".MP4"
      [] name = "video.mp4" -> ".mp4"
      [] name = "song.mp3" -> ".mp3"
      [] name = "speech.wav" -> ".wav"
      [] name = "background.wav" -> ".wav"
      [] name = "data.qqq" -> ".qqq"
      [] OTHER -> ""

lower(ext) ==
    IF ext = ".MP4" THEN ".mp4" ELSE ext

\* mimetypes.types_map
types_map(ext) ==
    CASE ext = ".mp4" -> "video/mp4"
      [] ext = ".mp3" -> "audio/mpeg"
      [] ext = ".wav" -> "audio/x-wav"
      [] OTHER -> None

\* mimetypes.guess_type(name)[0]
guess_type(name) ==
    LET ext == splitext(name)
    IN  IF types_map(ext) # None THEN types_map(ext) ELSE types_map(lower(ext))

\* Python truthiness of an optional string
truthy(s) == s # None /\ s # ""

\* a mutant: the generic binary type is passed on to the provider
mime_type_keeps_octet_stream(content_type, filename) ==
    IF truthy(content_type) THEN content_type
    ELSE LET guessed == guess_type(IF truthy(filename) THEN filename ELSE "video.mp4")
         IN  IF truthy(guessed) THEN guessed ELSE "video/mp4"

\* the mime_type passed to _describe_speaker
mime_type(content_type, filename) ==
    IF ~truthy(content_type) \/ content_type = "application/octet-stream"
    THEN LET guessed == guess_type(IF truthy(filename) THEN filename ELSE "video.mp4")
         IN  IF truthy(guessed) THEN guessed ELSE "video/mp4"
    ELSE content_type

\* the name of the input file inside the job directory (line 93)
input_name(filename) ==
    IF truthy(filename) THEN filename ELSE "input"

Init ==
    /\ fs_repo = TRUE
    /\ fs_output = TRUE
    /\ fs_jobs = [j \in {} |-> EmptyDir]
    /\ reqs = [r \in Requests |-> IdleRequest]
    /\ response = NoResponse
    /\ describe_log = NoCall
    /\ engine_out = [j \in JobIds |-> NoResult]

\* ---- POST /separate (lines 85-114) ----
\* a mutant: mkdir(exist_ok=True), an existing directory is reused
mkdir_exist_ok(job_id) ==
    fs_output

\* whether job_dir.mkdir() (line 89) succeeds: the parent exists and the
\* directory does not (no parents=True, no exist_ok=True)
mkdir_succeeds(job_id) ==
    fs_output /\ job_id \notin DOMAIN fs_jobs

\* Path.mkdir: the job directories with job_id created empty (kept if it exists)
mkdir(jobs, job_id) ==
    [j \in DOMAIN jobs \cup {job_id} |-> IF j \in DOMAIN jobs THEN jobs[j] ELSE EmptyDir]

\* the 500 response of a handler that raised at the given line
ServerError(op, line) ==
    [op |-> op, status |-> 500, detail |-> "Internal Server Error", raised_at |-> line,
     speech_url |-> <<>>, background_url |-> <<>>, content |-> NoBytes]

\* lines 87-92: generate the job id, create the directory, suspend at file.read()
SeparateBegin(r) ==
    /\ reqs[r].pc = "idle"
    /\ \E job_id \in JobIds, filename \in UploadNames, content_type \in UploadTypes,
          file_bytes \in UploadBytes :
          IF mkdir_succeeds(job_id)
          THEN /\ fs_jobs' = mkdir(fs_jobs, job_id)
               /\ reqs' = [reqs EXCEPT ![r] =
                             [pc |-> "read", job_id |-> job_id, filename |-> filename,
                              content_type |-> content_type, file_bytes |-> file_bytes]]
               /\ UNCHANGED response
          ELSE /\ response' = ServerError("separate", 89)
               /\ UNCHANGED <<fs_jobs, reqs>>
    /\ UNCHANGED <<fs_repo, fs_output, describe_log, engine_out>>

\* a mutant: the output files are created before the engine has produced them,
\* so a request that raises leaves them behind
persisted_creates_outputs_early(dir, q, raised_at, speech, background) ==
    write_bytes(write_bytes(write_bytes(dir, input_name(q.filename), q.file_bytes),
                            "speech.wav", speech),
                "background.wav", background)

\* the job directory after lines 94-108 of a request that raised at line
\* raised_at (0: it did not raise): the input is written at line 94, the two
\* artifacts only by result.save at line 108
persisted(dir, q, raised_at, speech, background) ==
    LET with_input == write_bytes(dir, input_name(q.filename), q.file_bytes)
    IN  IF raised_at = 0
        THEN write_bytes(write_bytes(with_input, "speech.wav", speech),
                         "background.wav", background)
        ELSE with_input

\* lines 92-114: write the input, describe the speaker, separate, save, return
SeparateResume(r) ==
    /\ reqs[r].pc = "read"
    /\ reqs' = [reqs EXCEPT ![r] = IdleRequest]
    /\ UNCHANGED <<fs_repo, fs_output>>
    /\ LET q == reqs[r]
           job_id == q.job_id
           call == [called |-> TRUE,
                    mime_type |-> mime_type(q.content_type, q.filename),
                    filename |-> q.filename, content_type |-> q.content_type]
       IN  IF ~exists(job_id)
           THEN \* line 94: write_bytes into a missing directory raises
                /\ response' = ServerError("separate", 94)
                /\ UNCHANGED <<fs_jobs, describe_log, engine_out>>
           ELSE \E result \in Results :
                  LET speech == speech_bytes(result)
                      background == background_bytes(result)
                  IN
                    \/ \* line 100: the Description Provider call raises
                       /\ fs_jobs' = [fs_jobs EXCEPT ![job_id] =
                             persisted(@, q, 100, speech, background)]
                       /\ describe_log' = call
                       /\ response' = ServerError("separate", 100)
                       /\ UNCHANGED engine_out
                    \/ \* line 104: the Separation Engine call raises
                       /\ fs_jobs' = [fs_jobs EXCEPT ![job_id] =
                             persisted(@, q, 104, speech, background)]
                       /\ describe_log' = call
                       /\ response' = ServerError("separate", 104)
                       /\ UNCHANGED engine_out
                    \/ \* lines 104-114: the engine returns, the artifacts are saved
                       /\ fs_jobs' = [fs_jobs EXCEPT ![job_id] =
                             persisted(@, q, 0, speech, background)]
                       /\ describe_log' = call
                       /\ engine_out' = [engine_out EXCEPT ![job_id] =
                             [speech |-> speech, background |-> background]]
                       /\ response' =
                             [op |-> "separate", status |-> 200, detail |-> "",
                              raised_at |-> 0,
                              speech_url |-> <<job_id, "speech.wav">>,
                              background_url |-> <<job_id, "background.wav">>,
                              content |-> NoBytes]

\* ---- GET /files/{job_id}/{filename} (lines 117-120) ----
\* FileResponse(path): the file's bytes, or RuntimeError (a 500) when the path
\* is no regular file; the handler has no not-found branch
FileResponse(job_id, filename) ==
    IF is_file(job_id, filename)
    THEN [op |-> "get_file", status |-> 200, detail |-> "audio/wav", raised_at |-> 0,
          speech_url |-> <<>>, background_url |-> <<>>,
          content |-> fs_jobs[job_id][filename]]
    ELSE ServerError("get_file", 120)

GetFile(job_id, filename) ==
    /\ response' = FileResponse(job_id, filename)
    /\ UNCHANGED <<fs_repo, fs_output, fs_jobs, reqs, describe_log, engine_out>>

\* ---- DELETE /files/{job_id} (lines 123-129) ----
NotFound ==
    [op |-> "delete_job", status |-> 404, detail |-> "Job not found", raised_at |-> 127,
     speech_url |-> <<>>, background_url |-> <<>>, content |-> NoBytes]

Deleted ==
    [op |-> "delete_job", status |-> 200, detail |-> "deleted", raised_at |-> 0,
     speech_url |-> <<>>, background_url |-> <<>>, content |-> NoBytes]

\* a mutant: the handler reports success without removing the directory
delete_job_keeps_directory(job_id) ==
    /\ response' = IF exists(job_id) THEN Deleted ELSE NotFound
    /\ UNCHANGED <<fs_repo, fs_output, fs_jobs, reqs, describe_log, engine_out>>

\* a mutant: the handler refuses to delete a job whose request is in flight
delete_job_checks_in_flight(job_id) ==
    /\ response' =
          IF ~exists(job_id) THEN NotFound
          ELSE IF \E r \in Requests : reqs[r].pc = "read" /\ reqs[r].job_id = job_id
               THEN ServerError("delete_job", 126)
               ELSE Deleted
    /\ fs_jobs' =
          IF response'.status = 200 /\ job_id \in JobIds THEN rmtree(fs_jobs, job_id)
          ELSE IF response'.status = 200 THEN [j \in {} |-> EmptyDir]
          ELSE fs_jobs
    /\ fs_output' = (fs_output /\ ~(response'.status = 200 /\ job_id \notin JobIds))
    /\ UNCHANGED <<fs_repo, reqs, describe_log, engine_out>>

DeleteJob(job_id) ==
    IF ~exists(job_id)
    THEN \* line 127
         /\ response' = NotFound
         /\ UNCHANGED <<fs_repo, fs_output, fs_jobs, reqs, describe_log, engine_out>>
    ELSE \* line 128: shutil.rmtree(job_dir)
         /\ IF job_id \in JobIds
            THEN /\ fs_jobs' = rmtree(fs_jobs, job_id)
                 /\ engine_out' = [engine_out EXCEPT ![job_id] = NoResult]
                 /\ UNCHANGED <<fs_repo, fs_output>>
            ELSE \* "." is OUTPUT_DIR itself, ".." its parent: everything below goes
                 /\ fs_jobs' = [j \in {} |-> EmptyDir]
                 /\ fs_output' = FALSE
                 /\ fs_repo' = (fs_repo /\ job_id # DotDot)
                 /\ UNCHANGED engine_out
         /\ response' =
               IF job_id = DotDot
               THEN \* rmtree empties the parent, then its rmdir of ".../output/.." raises
                    ServerError("delete_job", 128)
               ELSE Deleted
         /\ UNCHANGED <<reqs, describe_log>>

Next ==
    \/ \E r \in Requests : SeparateBegin(r)
    \/ \E r \in Requests : SeparateResume(r)
    \/ \E job_id \in PathComponents, filename \in RequestNames : GetFile(job_id, filename)
    \/ \E job_id \in PathComponents : DeleteJob(job_id)

Spec == Init /\ [][Next]_vars

\* ---- separate requests alone, handled concurrently ----
NextSeparate ==
    \/ \E r \in Requests : SeparateBegin(r)
    \/ \E r \in Requests : SeparateResume(r)

SpecSeparate == Init /\ [][NextSeparate]_vars

\* ---- the MIME resolution over every kind of upload ----
\* one request suspended at file.read() (line 92) in its fresh directory,
\* its upload drawn from all the content types and file names
InitMime ==
    /\ fs_repo = TRUE
    /\ fs_output = TRUE
    /\ response = NoResponse
    /\ describe_log = NoCall
    /\ engine_out = [j \in JobIds |-> NoResult]
    /\ \E job_id \in JobIds, filename \in Filenames, content_type \in ContentTypes,
          file_bytes \in UploadBytes :
          /\ fs_jobs = mkdir([j \in {} |-> EmptyDir], job_id)
          /\ reqs = [r \in Requests |->
                       IF r = 1
                       THEN [pc |-> "read", job_id |-> job_id, filename |-> filename,
                             content_type |-> content_type, file_bytes |-> file_bytes]
                       ELSE IdleRequest]

NextMime ==
    \E r \in Requests : SeparateResume(r)

SpecMime == InitMime /\ [][NextMime]_vars

\* ======================= the claims =======================

\* a step in which request r leaves line 92 and finishes (only SeparateResume(r) does that)
Resumes(r) ==
    reqs[r].pc = "read" /\ reqs'[r].pc = "idle"

\* C1: delete_job(J) answers 404 exactly when J's directory does not exist at
\* the call and then changes nothing; on an existing job directory it answers
\* {status: "deleted"}; after a successful delete_job(J) the directory does not
\* exist, so a second delete_job(J) with no separate creating J in between
\* answers 404.
C1_DeleteTwice ==
    [][\A x \in PathComponents :
         DeleteJob(x) =>
           /\ (response'.status = 404) <=> ~exists(x)
           /\ ~exists(x) => UNCHANGED <<fs_repo, fs_output, fs_jobs>>
           /\ (x \in JobIds /\ exists(x)) => response' = Deleted
           /\ response'.status = 200 =>
                /\ fs_output' => x \notin DOMAIN fs_jobs'
                /\ x \notin JobIds => ~fs_output']_vars

\* C1 witness: a job was processed, delete_job removed it, and a later
\* delete_job was answered 404.
C1_Witness ==
    /\ response = NotFound
    /\ describe_log.called
    /\ fs_output
    /\ DOMAIN fs_jobs = {}

\* C2 (as stated): in every existing job directory speech.wav and
\* background.wav exist if and only if the Separation Engine call of the job's
\* request completed and its save ran, whatever the upload was named; never
\* exactly one of the two exists.
C2_ArtifactsIffSeparated ==
    \A j \in DOMAIN fs_jobs :
       LET d == fs_jobs[j]
       IN  /\ ("speech.wav" \in DOMAIN d) <=> ("background.wav" \in DOMAIN d)
           /\ ("speech.wav" \in DOMAIN d /\ "background.wav" \in DOMAIN d)
                 <=> (engine_out[j] # NoResult)

\* C3 (as stated): every job directory that exists holds the job's uploaded
\* input file, in every state, the suspension at file.read() included.
C3_DirectoryHasInput ==
    \A j \in DOMAIN fs_jobs :
       /\ fs_jobs[j] # EmptyDir
       /\ \A r \in Requests :
             (reqs[r].pc = "read" /\ reqs[r].job_id = j)
                => input_name(reqs[r].filename) \in DOMAIN fs_jobs[j]

\* a step in which the Description Provider call or the Separation Engine call
\* of request r raises
ProviderOrEngineFails(r) ==
    Resumes(r) /\ response'.op = "separate" /\ response'.raised_at \in {100, 104}

\* C4 (as stated): when the Description Provider call or the Separation Engine
\* call of a request fails, the request returns an error with no URLs and its
\* job directory is left in place holding only the input file.
C4_OnlyInputLeft ==
    [][\A r \in Requests :
         ProviderOrEngineFails(r) =>
           LET q == reqs[r]
           IN  /\ response'.status = 500
               /\ response'.speech_url = <<>> /\ response'.background_url = <<>>
               /\ q.job_id \in DOMAIN fs_jobs'
               /\ DOMAIN fs_jobs'[q.job_id] = {input_name(q.filename)}
               /\ fs_jobs'[q.job_id][input_name(q.filename)] = q.file_bytes]_vars

\* C4 (amended): when the Description Provider call or the Separation Engine
\* call of a request fails, the request returns an error with no URLs, the job
\* directory is left in place, and the only change the request has made to it
\* is the input file: no artifact is written, no other file is touched, and a
\* directory that held nothing when the request resumed holds the input only.
C4_OnlyInputAdded ==
    [][\A r \in Requests :
         ProviderOrEngineFails(r) =>
           LET q == reqs[r]
               name == input_name(q.filename)
           IN  /\ response'.status = 500
               /\ response'.speech_url = <<>> /\ response'.background_url = <<>>
               /\ DOMAIN fs_jobs' = DOMAIN fs_jobs
               /\ q.job_id \in DOMAIN fs_jobs'
               /\ DOMAIN fs_jobs'[q.job_id] = DOMAIN fs_jobs[q.job_id] \cup {name}
               /\ fs_jobs'[q.job_id][name] = q.file_bytes
               /\ \A n \in DOMAIN fs_jobs[q.job_id] \ {name} :
                     fs_jobs'[q.job_id][n] = fs_jobs[q.job_id][n]
               /\ \A k \in DOMAIN fs_jobs \ {q.job_id} : fs_jobs'[k] = fs_jobs[k]
               /\ engine_out' = engine_out
               /\ fs_jobs[q.job_id] = EmptyDir
                     => DOMAIN fs_jobs'[q.job_id] = {name}]_vars

\* C4 witness: the engine or the provider raised for an upload named like an
\* artifact, and the directory holds that input file and nothing else.
C4_Witness ==
    /\ response.op = "separate"
    /\ response.raised_at \in {100, 104}
    /\ \E j \in DOMAIN fs_jobs :
          DOMAIN fs_jobs[j] = {"speech.wav"} /\ engine_out[j] = NoResult

C6_MissingFileIs404 ==
    (response.op = "get_file" /\ response.status # 200) => response.status = 404

\* C7 (as stated): once separate has returned the URLs of job J, and as long as
\* no delete_job(J) has run, get_file on both URLs succeeds with the bytes the
\* engine produced for J.
C7_UrlsServeEngineBytes ==
    \A j \in JobIds :
       engine_out[j] # NoResult =>
          /\ FileResponse(j, "speech.wav").status = 200
          /\ FileResponse(j, "speech.wav").content = engine_out[j].speech
          /\ FileResponse(j, "background.wav").status = 200
          /\ FileResponse(j, "background.wav").content = engine_out[j].background

\* the MIME type the specification prescribes: the declared content type if it
\* is present (not absent, not empty) and not application/octet-stream, else
\* the type inferred from the file name's extension if there is one, else
\* video/mp4
PrescribedMime(content_type, filename) ==
    IF content_type \notin {None, "", "application/octet-stream"} THEN content_type
    ELSE IF filename \notin {None, ""} /\ guess_type(filename) # None
         THEN guess_type(filename)
         ELSE "video/mp4"

\* C8: for every declared content type and file name, the MIME type passed to
\* the Description Provider is the prescribed one.
C8_MimePassedToProvider ==
    describe_log.called =>
       describe_log.mime_type
          = PrescribedMime(describe_log.content_type, describe_log.filename)

\* C8 witness: an upload without a file name and without a content type was
\* described as video/mp4.
C8_Witness ==
    /\ describe_log.called
    /\ describe_log.filename = None
    /\ describe_log.content_type = None
    /\ describe_log.mime_type = "video/mp4"

\* C9: delete_job does not look at the requests in flight: while the separate
\* request of job J is suspended after creating J's directory, delete_job(J)
\* can run, succeeds and removes the directory, the request staying in flight;
\* the request then goes on to its write of the input file (line 94) into the
\* directory that is gone.
C9_DeleteDuringSeparate ==
    \A r \in Requests :
       reqs[r].pc = "read" =>
          /\ exists(reqs[r].job_id) =>
                ENABLED (/\ DeleteJob(reqs[r].job_id)
                         /\ response' = Deleted
                         /\ reqs[r].job_id \notin DOMAIN fs_jobs'
                         /\ reqs' = reqs)
          /\ ~exists(reqs[r].job_id) =>
                ENABLED (SeparateResume(r) /\ response'.raised_at = 94)

\* C9 witness: a request whose directory delete_job removed while the upload
\* was being read has reached its write at line 94.
C9_Witness ==
    /\ response.op = "separate"
    /\ response.raised_at = 94
    /\ fs_output

\* C10 (as stated): delete_job(X) leaves the directory and files of every job
\* other than the one X names, and everything outside the output root,
\* unchanged, for every X the route accepts, "." and ".." included; a call that
\* fails with 404 changes nothing.
C10_DeleteOnlyNamedJob ==
    [][\A x \in PathComponents :
         DeleteJob(x) =>
           /\ \A k \in JobIds \ {x} :
                 /\ exists(k) <=> (fs_output' /\ k \in DOMAIN fs_jobs')
                 /\ exists(k) => fs_jobs'[k] = fs_jobs[k]
           /\ fs_repo' = fs_repo
           /\ response'.status = 404 => UNCHANGED <<fs_repo, fs_output, fs_jobs>>]_vars

====
